---- MODULE Spec2Model ----
(***************************************************************************)
(* Model of src/server.js: the report handlers GET /sales and              *)
(* GET /sales/trends over the shared pg client.  server.js holds two       *)
(* variants of each handler: the date-string variant (lines 39-231,        *)
(* "SalesDate", "TrendsChecked") and the month/year variant (lines         *)
(* 278-457, "SalesMonthYear", "TrendsRaw").  Date objects are computed in  *)
(* UTC (the process runs in a container without TZ set), at day            *)
(* granularity, since the handlers only build first/last days of months.   *)
(***************************************************************************)
EXTENDS Integers, Sequences, FiniteSets, TLC

\* ---------------------------------------------------------------- bounds
YearSpan == 2
MaxRows == 2
NumSlots == 2

BaseYears == {2023 + i : i \in 0..(YearSpan - 1)}

\* ------------------------------------------------- req.query parameters
\* A query parameter is either absent (undefined) or a string; strings that
\* the code parses are sequences of characters, strings that it only
\* compares are TLA+ strings.
Undef(empty) == [def |-> FALSE, s |-> empty]
Str(v) == [def |-> TRUE, s |-> v]

\* JS truthiness of a query parameter: undefined and "" are falsy.
Truthy(p) == p.def /\ p.s # <<>>

\* Destructuring default (`group_by = "user"`): applies to undefined only.
Default(p, dflt) == IF p.def THEN p.s ELSE dflt

DigitChars == <<"0", "1", "2", "3", "4", "5", "6", "7", "8", "9">>
IsDigit(c) == \E i \in 1..10 : DigitChars[i] = c
DigitVal(c) == (CHOOSE i \in 1..10 : DigitChars[i] = c) - 1

RECURSIVE DigitsValue(_)
DigitsValue(s) ==
  IF s = <<>> THEN 0
  ELSE 10 * DigitsValue(SubSeq(s, 1, Len(s) - 1)) + DigitVal(s[Len(s)])

AllDigits(s) == \A i \in 1..Len(s) : IsDigit(s[i])

\* /^\d{4}-(0[1-9]|1[0-2])$/.test(x); undefined is tested as "undefined".
dateFormat(p) ==
  /\ p.def
  /\ Len(p.s) = 7
  /\ \A i \in 1..4 : IsDigit(p.s[i])
  /\ p.s[5] = "-"
  /\ \/ p.s[6] = "0" /\ IsDigit(p.s[7]) /\ p.s[7] # "0"
     \/ p.s[6] = "1" /\ p.s[7] \in {"0", "1", "2"}

\* JS numbers as far as the handlers need them: NaN, or a value with its
\* integer part and whether it is an integer.
NaN == [nan |-> TRUE, int |-> 0, isInt |-> FALSE]
Num(n) == [nan |-> FALSE, int |-> n, isInt |-> TRUE]
Frac(n) == [nan |-> FALSE, int |-> n, isInt |-> FALSE]

\* Index of the first "." in s, or 0.
DotAt(s) == IF \E i \in 1..Len(s) : s[i] = "." 
            THEN CHOOSE i \in 1..Len(s) : s[i] = "." /\ \A j \in 1..(i-1) : s[j] # "."
            ELSE 0

\* Number(s): "" is 0, digits[.digits] is a number, other text is NaN.
\* Signs, exponents, whitespace and radix prefixes are not modelled; no
\* input uses them.
Number(s) ==
  IF s = <<>> THEN Num(0)
  ELSE IF AllDigits(s) THEN Num(DigitsValue(s))
  ELSE LET k == DotAt(s) IN
       IF k > 1 /\ k < Len(s)
          /\ AllDigits(SubSeq(s, 1, k - 1)) /\ AllDigits(SubSeq(s, k + 1, Len(s)))
       THEN IF \A i \in (k + 1)..Len(s) : s[i] = "0"
            THEN Num(DigitsValue(SubSeq(s, 1, k - 1)))
            ELSE Frac(DigitsValue(SubSeq(s, 1, k - 1)))
       ELSE NaN

NumberIsInteger(x) == ~x.nan /\ x.isInt

\* Length of the longest prefix of s made of digits.
RECURSIVE DigitPrefix(_)
DigitPrefix(s) ==
  IF s = <<>> \/ ~IsDigit(s[1]) THEN 0 ELSE 1 + DigitPrefix(Tail(s))

\* parseInt(s, 10): the leading digits, NaN when there are none.
parseInt(s) ==
  LET k == DigitPrefix(s) IN
  IF k = 0 THEN NaN ELSE Num(DigitsValue(SubSeq(s, 1, k)))

\* x - 1 on a JS number (x >= 1 or NaN where the handler uses it).
MinusOne(x) == IF x.nan THEN NaN ELSE [x EXCEPT !.int = x.int - 1]

\* ------------------------------------------------------------ JS Date
\* A Date is Invalid or a UTC calendar day with a 0-based month (getMonth).
InvalidDate == [valid |-> FALSE, y |-> 0, m |-> 0, d |-> 0]

IsLeap(y) == (y % 4 = 0 /\ y % 100 # 0) \/ y % 400 = 0

DaysInMonth(y, m) ==
  IF m = 1 THEN (IF IsLeap(y) THEN 29 ELSE 28)
  ELSE IF m \in {3, 5, 8, 10} THEN 30 ELSE 31

\* MakeDay/MakeDate: month and day overflow and underflow are carried.
MakeDate(y, m, d) ==
  LET yy == y + (m \div 12)
      mm == m % 12
      py == IF mm = 0 THEN yy - 1 ELSE yy
      pm == IF mm = 0 THEN 11 ELSE mm - 1
      ny == IF mm = 11 THEN yy + 1 ELSE yy
      nm == IF mm = 11 THEN 0 ELSE mm + 1
  IN  IF d < 1 THEN [valid |-> TRUE, y |-> py, m |-> pm, d |-> DaysInMonth(py, pm) + d]
      ELSE IF d > DaysInMonth(yy, mm)
           THEN [valid |-> TRUE, y |-> ny, m |-> nm, d |-> d - DaysInMonth(yy, mm)]
           ELSE [valid |-> TRUE, y |-> yy, m |-> mm, d |-> d]

\* new Date("YYYY-MM-DD"): an ISO date-only string is UTC midnight.
NewDateISO(s) ==
  IF Len(s) = 10 /\ AllDigits(SubSeq(s, 1, 4)) /\ s[5] = "-"
     /\ AllDigits(SubSeq(s, 6, 7)) /\ s[8] = "-" /\ AllDigits(SubSeq(s, 9, 10))
     /\ DigitsValue(SubSeq(s, 6, 7)) \in 1..12
     /\ DigitsValue(SubSeq(s, 9, 10)) \in 1..31
  THEN MakeDate(DigitsValue(SubSeq(s, 1, 4)), DigitsValue(SubSeq(s, 6, 7)) - 1,
                DigitsValue(SubSeq(s, 9, 10)))
  ELSE InvalidDate

\* new Date(year, monthIndex): numbers are truncated, years 0..99 are 19xx.
NewDateYM(year, monthIndex) ==
  IF year.nan \/ monthIndex.nan THEN InvalidDate
  ELSE MakeDate(IF year.int \in 0..99 THEN 1900 + year.int ELSE year.int,
                monthIndex.int, 1)

setMonth(date, m) == IF date.valid THEN MakeDate(date.y, m, date.d) ELSE InvalidDate
setDate(date, d) == IF date.valid THEN MakeDate(date.y, date.m, d) ELSE InvalidDate

\* a > b on Dates compares time values; a comparison with NaN is false.
DateGT(a, b) ==
  /\ a.valid /\ b.valid
  /\ \/ a.y > b.y
     \/ a.y = b.y /\ a.m > b.m
     \/ a.y = b.y /\ a.m = b.m /\ a.d > b.d

DateGE(a, b) == a.valid /\ b.valid /\ (a = b \/ DateGT(a, b))

\* ------------------------------------------------------ SQL text, values
\* The SQL text is the sequence of the pieces the template literal is built
\* from: fixed text, a $n placeholder, or an interpolated `${...}` value.
Text(s) == [t |-> "text", s |-> s, n |-> 0]
Ph(n) == [t |-> "ph", s |-> "$", n |-> n]
Interp(s) == [t |-> "interp", s |-> s, n |-> 0]

\* Positional values handed to pgclient.query.
DateP(d) == [k |-> "date", date |-> d, num |-> NaN, str |-> <<>>]
NumP(x) == [k |-> "num", date |-> InvalidDate, num |-> x, str |-> <<>>]
StrP(s) == [k |-> "str", date |-> InvalidDate, num |-> NaN, str |-> s]

NoCall == [made |-> FALSE, sql |-> <<>>, values |-> <<>>]
Query(sql, values) == [made |-> TRUE, sql |-> sql, values |-> values]

\* res.status(code).json({error: msg}) and res.json(rows).
ErrorResponse(code, msg) == [status |-> code, error |-> msg, rows |-> <<>>]
RowsResponse(rows) == [status |-> 200, error |-> "", rows |-> rows]

MsgDateFormat == "Invalid date format. Please use 'YYYY-MM' format with valid months (01 to 12)."
MsgGroupBy == "Invalid group_by value. Valid options are 'user' or 'group'."
MsgSortBy == "Invalid sort_by value. Valid options are 'total_revenue' or 'avg_revenue'."
MsgSortOrder == "Invalid sort_order value. Valid options are 'asc' or 'desc'."
MsgBothDates == "Please provide both start_date and end_date parameters in 'YYYY-MM' format."
MsgRange == "Invalid date range. Start date must be before or equal to end date."
MsgUserId == "Invalid user_id. Must be an integer."
MsgGroupId == "Invalid group_id. Must be an integer."
MsgMonthYear == "Please provide both month and year parameters."
MsgMonth == "Invalid month. Month must be a number between 1 and 12."
MsgNotFound == "No sales data found for the given parameters."
MsgInternal == "Internal server error"

validGroupBy == {"user", "group"}
validSortBy == {"total_revenue", "avg_revenue"}
validSortOrder == {"asc", "desc"}

\* if (!validSortBy.includes(sort_by)) return 400
\* (variant without the check)
SortByUnchecked(sort_by) == FALSE
SortByRejected(sort_by) == sort_by \notin validSortBy

\* What the synchronous part of a handler does: the responses it sends and
\* the query it hands to the client (none after an early return).
Reject(msg) == [sent |-> <<ErrorResponse(400, msg)>>, call |-> NoCall]
Execute(sql, values) == [sent |-> <<>>, call |-> Query(sql, values)]

HalfOpenFilter == <<Text(" WHERE s.date >= "), Ph(1), Text(" AND s.date < "), Ph(2)>>
BetweenFilter == <<Text(" WHERE s.date BETWEEN "), Ph(1), Text(" AND "), Ph(2)>>

OrderBy(sort_by, sort_order) ==
  <<Text(" ORDER BY "), Interp(sort_by), Text(" "), Interp(sort_order), Text(";")>>

\* ------------------------------------- GET /sales, date=YYYY-MM variant
SalesDateUserQuery(sort_by, sort_order) ==
  <<Text("SELECT u.id AS user_id, u.name AS user_name, TO_CHAR("), Ph(1),
    Text("::date, 'YYYY-MM') AS month, COUNT(s.id) AS num_sales, SUM(s.amount) AS total_revenue, AVG(s.amount) AS avg_revenue FROM users u JOIN sales s ON s.user_id = u.id")>>
  \o HalfOpenFilter
  \o <<Text(" GROUP BY u.id, u.name, month")>>
  \o OrderBy(sort_by, sort_order)

SalesDateGroupQuery(sort_by, sort_order) ==
  <<Text("SELECT g.id AS group_id, g.name AS group_name, TO_CHAR("), Ph(1),
    Text("::date, 'YYYY-MM') AS month, COUNT(s.id) AS num_sales, SUM(s.amount) AS total_revenue, AVG(s.amount) AS avg_revenue FROM groups g JOIN user_groups ug ON g.id = ug.group_id JOIN users u ON ug.user_id = u.id JOIN sales s ON s.user_id = u.id")>>
  \o HalfOpenFilter
  \o <<Text(" GROUP BY g.id, g.name, month")>>
  \o OrderBy(sort_by, sort_order)

\* `${x}-01`
FirstOfMonthString(s) == s \o <<"-", "0", "1">>

\* endDate.setMonth(endDate.getMonth() + 1)
NextMonth(date) == setMonth(date, date.m + 1)

SalesDate(q) ==
  LET group_by == Default(q.group_by, "user")
      sort_by == Default(q.sort_by, "total_revenue")
      sort_order == Default(q.sort_order, "desc")
      startDate == NewDateISO(FirstOfMonthString(q.date.s))
      endDate == NextMonth(NewDateISO(FirstOfMonthString(q.date.s)))
      query == IF group_by = "user" THEN SalesDateUserQuery(sort_by, sort_order)
               ELSE IF group_by = "group" THEN SalesDateGroupQuery(sort_by, sort_order)
               ELSE <<>>
  IN  IF ~dateFormat(q.date) THEN Reject(MsgDateFormat)
      ELSE IF group_by \notin validGroupBy THEN Reject(MsgGroupBy)
      ELSE IF SortByRejected(sort_by) THEN Reject(MsgSortBy)
      ELSE IF sort_order \notin validSortOrder THEN Reject(MsgSortOrder)
      ELSE Execute(query, <<DateP(startDate), DateP(endDate)>>)

\* ------------------------------- GET /sales/trends, id-checking variant
TrendsSelect ==
  <<Text("SELECT u.id AS user_id, u.name AS user_name, g.id AS group_id, g.name AS group_name, TO_CHAR(DATE_TRUNC('month', s.date), 'YYYY-MM') AS period, COUNT(s.id) AS num_sales, SUM(s.amount) AS total_revenue, AVG(s.amount) AS avg_revenue FROM sales s JOIN users u ON s.user_id = u.id LEFT JOIN user_groups ug ON u.id = ug.user_id LEFT JOIN groups g ON ug.group_id = g.id")>>

TrendsTail == <<Text(" GROUP BY u.id, u.name, g.id, g.name, period ORDER BY period;")>>

\* if (user_id) { query += ` AND u.id = $3`; ... }
UserFilter(user_id) ==
  IF Truthy(user_id) THEN <<Text(" AND u.id = "), Ph(3)>> ELSE <<>>

\* const groupParamIndex = user_id ? 4 : 3;
\* (variant that assumes the position)
groupParamIndexFixed(user_id) == 3
groupParamIndex(user_id) == IF Truthy(user_id) THEN 4 ELSE 3

GroupFilter(user_id, group_id) ==
  IF Truthy(group_id) THEN <<Text(" AND g.id = "), Ph(groupParamIndex(user_id))>> ELSE <<>>

\* if (startDate > endDate) return 400
RangeRejected(startDate, endDate) == DateGT(startDate, endDate)

\* if (user_id && !Number.isInteger(Number(user_id))) return 400
IdRejected(id) == Truthy(id) /\ ~NumberIsInteger(Number(id.s))

TrendsCheckedValues(startDate, endDate, user_id, group_id) ==
  <<DateP(startDate), DateP(endDate)>>
  \o (IF Truthy(user_id) THEN <<NumP(Number(user_id.s))>> ELSE <<>>)
  \o (IF Truthy(group_id) THEN <<NumP(Number(group_id.s))>> ELSE <<>>)

TrendsChecked(q) ==
  LET startDate == NewDateISO(FirstOfMonthString(q.start_date.s))
      endDate == NextMonth(NewDateISO(FirstOfMonthString(q.end_date.s)))
      query == TrendsSelect \o HalfOpenFilter
               \o UserFilter(q.user_id) \o GroupFilter(q.user_id, q.group_id)
               \o TrendsTail
  IN  IF ~Truthy(q.start_date) \/ ~Truthy(q.end_date) THEN Reject(MsgBothDates)
      ELSE IF ~dateFormat(q.start_date) \/ ~dateFormat(q.end_date)
           THEN Reject(MsgDateFormat)
      ELSE IF RangeRejected(startDate, endDate) THEN Reject(MsgRange)
      ELSE IF IdRejected(q.user_id) THEN Reject(MsgUserId)
      ELSE IF IdRejected(q.group_id) THEN Reject(MsgGroupId)
      ELSE Execute(query, TrendsCheckedValues(startDate, endDate, q.user_id, q.group_id))

\* --------------------------------------- GET /sales, month/year variant
SalesMonthYearUserQuery(sort_by, sort_order) ==
  <<Text("SELECT u.id AS user_id, u.name AS user_name, DATE_TRUNC('month', s.date) AS period, COUNT(s.id) AS num_sales, SUM(s.amount) AS total_revenue, AVG(s.amount) AS avg_revenue FROM users u JOIN sales s ON s.user_id = u.id")>>
  \o BetweenFilter
  \o <<Text(" GROUP BY u.id, u.name, period")>>
  \o OrderBy(sort_by, sort_order)

SalesMonthYearGroupQuery(sort_by, sort_order) ==
  <<Text("SELECT g.id AS group_id, g.name AS group_name, DATE_TRUNC('month', s.date) AS period, COUNT(s.id) AS num_sales, SUM(s.amount) AS total_revenue, AVG(s.amount) AS avg_revenue FROM groups g JOIN user_groups ug ON g.id = ug.group_id JOIN users u ON ug.user_id = u.id JOIN sales s ON s.user_id = u.id")>>
  \o BetweenFilter
  \o <<Text(" GROUP BY g.id, g.name, period")>>
  \o OrderBy(sort_by, sort_order)

\* isNaN(monthInt) || monthInt < 1 || monthInt > 12
MonthRejected(month) ==
  LET monthInt == parseInt(month.s) IN
  monthInt.nan \/ monthInt.int < 1 \/ monthInt.int > 12

\* endDate.setMonth(endDate.getMonth() + 1); endDate.setDate(0);
LastDayOfMonth(date) == setDate(NextMonth(date), 0)

SalesMonthYear(q) ==
  LET group_by == Default(q.group_by, "user")
      sort_by == Default(q.sort_by, "total_revenue")
      sort_order == Default(q.sort_order, "desc")
      startDate == NewDateYM(Number(q.year.s), MinusOne(Number(q.month.s)))
      endDate == LastDayOfMonth(startDate)
      query == IF group_by = "user" THEN SalesMonthYearUserQuery(sort_by, sort_order)
               ELSE IF group_by = "group" THEN SalesMonthYearGroupQuery(sort_by, sort_order)
               ELSE <<>>
  IN  IF ~Truthy(q.month) \/ ~Truthy(q.year) THEN Reject(MsgMonthYear)
      ELSE IF MonthRejected(q.month) THEN Reject(MsgMonth)
      ELSE IF SortByRejected(sort_by) THEN Reject(MsgSortBy)
      ELSE IF sort_order \notin validSortOrder THEN Reject(MsgSortOrder)
      ELSE Execute(query, <<DateP(startDate), DateP(endDate)>>)

\* ----------------------------------- GET /sales/trends, raw-id variant
TrendsRawValues(startDate, endDate, user_id, group_id) ==
  <<DateP(startDate), DateP(endDate)>>
  \o (IF Truthy(user_id) THEN <<StrP(user_id.s)>> ELSE <<>>)
  \o (IF Truthy(group_id) THEN <<StrP(group_id.s)>> ELSE <<>>)

TrendsRawSelect ==
  <<Text("SELECT u.id AS user_id, u.name AS user_name, g.id AS group_id, g.name AS group_name, DATE_TRUNC('month', s.date) AS period, COUNT(s.id) AS num_sales, SUM(s.amount) AS total_revenue, AVG(s.amount) AS avg_revenue FROM sales s JOIN users u ON s.user_id = u.id LEFT JOIN user_groups ug ON u.id = ug.user_id LEFT JOIN groups g ON ug.group_id = g.id")>>

TrendsRaw(q) ==
  LET startDate == NewDateISO(FirstOfMonthString(q.start_date.s))
      endDate == LastDayOfMonth(NewDateISO(FirstOfMonthString(q.end_date.s)))
      query == TrendsRawSelect \o BetweenFilter
               \o UserFilter(q.user_id) \o GroupFilter(q.user_id, q.group_id)
               \o TrendsTail
  IN  IF ~Truthy(q.start_date) \/ ~Truthy(q.end_date) THEN Reject(MsgBothDates)
      ELSE IF ~dateFormat(q.start_date) \/ ~dateFormat(q.end_date)
           THEN Reject(MsgDateFormat)
      ELSE IF RangeRejected(startDate, endDate) THEN Reject(MsgRange)
      ELSE Execute(query, TrendsRawValues(startDate, endDate, q.user_id, q.group_id))

\* ------------------------------------------ after `await pgclient.query`
\* try { result = await ...; 404 if no rows; else rows } catch { 500 }
\* (variant without the rows.length === 0 test)
MapResultNoEmptyCheck(result) ==
  IF result.fail THEN <<ErrorResponse(500, MsgInternal)>>
  ELSE <<RowsResponse(result.rows)>>

\* (variant without the return in front of the 404 response)
MapResultNoReturn(result) ==
  IF result.fail THEN <<ErrorResponse(500, MsgInternal)>>
  ELSE IF Len(result.rows) = 0
       THEN <<ErrorResponse(404, MsgNotFound), RowsResponse(result.rows)>>
       ELSE <<RowsResponse(result.rows)>>

MapResult(result) ==
  IF result.fail THEN <<ErrorResponse(500, MsgInternal)>>
  ELSE IF Len(result.rows) = 0 THEN <<ErrorResponse(404, MsgNotFound)>>
  ELSE <<RowsResponse(result.rows)>>

\* ---------------------------------------------------------------- inputs
NoParam == Undef(<<>>)
NoEnum == Undef("")

YearChars(y) ==
  <<DigitChars[(y \div 1000) + 1], DigitChars[((y \div 100) % 10) + 1],
    DigitChars[((y \div 10) % 10) + 1], DigitChars[(y % 10) + 1]>>

TwoDigits(m) == <<DigitChars[(m \div 10) + 1], DigitChars[(m % 10) + 1]>>

MonthString(y, m) == Str(YearChars(y) \o <<"-">> \o TwoDigits(m))

WellFormedDates == {MonthString(y, m) : y \in BaseYears, m \in 1..12}

MalformedDates ==
  { NoParam, Str(<<>>),
    Str(<<"2", "0", "2", "4", "-", "1", "3">>),
    Str(<<"2", "0", "2", "4", "-", "0", "0">>),
    Str(<<"2", "0", "2", "4", "-", "1">>) }

DateInputs == WellFormedDates \cup MalformedDates

TrendDateInputs ==
  WellFormedDates \cup {NoParam, Str(<<>>), Str(<<"2", "0", "2", "4", "-", "1", "3">>)}

GroupByInputs == {NoEnum, Str("user"), Str("group"), Str("team")}
SortByInputs == {NoEnum, Str("total_revenue"), Str("avg_revenue"), Str("1; DROP TABLE sales")}
SortOrderInputs == {NoEnum, Str("asc"), Str("desc"), Str("sideways")}

UserIdInputs ==
  {NoParam, Str(<<>>), Str(<<"7">>), Str(<<"7", ".", "5">>), Str(<<"a", "b", "c">>)}
GroupIdInputs == {NoParam, Str(<<"8">>), Str(<<"x">>)}

MonthInputs ==
  { NoParam, Str(<<>>), Str(<<"1">>), Str(<<"2">>), Str(<<"1", "2">>), Str(<<"0", "3">>),
    Str(<<"0">>), Str(<<"1", "3">>), Str(<<"a", "b", "c">>), Str(<<"3", "a", "b", "c">>),
    Str(<<"1", ".", "5">>) }

YearInputs ==
  {Str(YearChars(y)) : y \in BaseYears}
  \cup {NoParam, Str(<<>>), Str(<<"a", "b", "c">>)}

Request(h, date, month, year, group_by, sort_by, sort_order, start_date, end_date, user_id, group_id) ==
  [h |-> h, date |-> date, month |-> month, year |-> year,
   group_by |-> group_by, sort_by |-> sort_by, sort_order |-> sort_order,
   start_date |-> start_date, end_date |-> end_date,
   user_id |-> user_id, group_id |-> group_id]

NoRequest ==
  Request("", NoParam, NoParam, NoParam, NoEnum, NoEnum, NoEnum,
          NoParam, NoParam, NoParam, NoParam)

SalesDateRequests ==
  { Request("SalesDate", d, NoParam, NoParam, g, sb, so,
            NoParam, NoParam, NoParam, NoParam) :
      d \in DateInputs, g \in GroupByInputs, sb \in SortByInputs, so \in SortOrderInputs }

SalesMonthYearRequests ==
  { Request("SalesMonthYear", NoParam, m, y, g, sb, so,
            NoParam, NoParam, NoParam, NoParam) :
      m \in MonthInputs, y \in YearInputs, g \in GroupByInputs,
      sb \in SortByInputs, so \in SortOrderInputs }

TrendsRequests(h) ==
  { Request(h, NoParam, NoParam, NoParam, NoEnum, NoEnum, NoEnum, sd, ed, u, g) :
      sd \in TrendDateInputs, ed \in TrendDateInputs,
      u \in UserIdInputs, g \in GroupIdInputs }

\* The store's answer to one call: a fault, or rows in the store's order.
RowIds == {1, 2}
Fault == [fail |-> TRUE, rows |-> <<>>]
Rows(rows) == [fail |-> FALSE, rows |-> rows]
Results == {Fault} \cup {Rows(rows) : rows \in UNION {[1..n -> RowIds] : n \in 0..MaxRows}}

\* Inputs of the concurrent specification: a few requests per handler.
D2312 == MonthString(2023, 12)
D2401 == MonthString(2024, 1)
D2402 == MonthString(2024, 2)

ConcSalesDateRequests ==
  { Request("SalesDate", D2401, NoParam, NoParam, Str("user"), sb, NoEnum,
            NoParam, NoParam, NoParam, NoParam) :
      sb \in {Str("avg_revenue"), Str("1; DROP TABLE sales")} }

ConcSalesMonthYearRequests ==
  { Request("SalesMonthYear", NoParam, Str(<<"1", "2">>), Str(YearChars(2024)), g,
            NoEnum, Str("asc"), NoParam, NoParam, NoParam, NoParam) :
      g \in {Str("group"), Str("team")} }

ConcTrendsRequests(h) ==
  { Request(h, NoParam, NoParam, NoParam, NoEnum, NoEnum, NoEnum,
            sd, D2402, Str(<<"7">>), NoParam) :
      sd \in {D2312, D2401} }

ConcResults == {Fault, Rows(<<>>), Rows(<<2, 1>>)}

\* ----------------------------------------------------------------- state
VARIABLES req, pc, call, outcome, sent

vars == <<req, pc, call, outcome, sent>>

Slots == 1..NumSlots

Init ==
  /\ req = [r \in Slots |-> NoRequest]
  /\ pc = [r \in Slots |-> "idle"]
  /\ call = [r \in Slots |-> NoCall]
  /\ outcome = [r \in Slots |-> Rows(<<>>)]
  /\ sent = [r \in Slots |-> <<>>]

\* The handler runs from the arrival of the request to its first await or
\* to its return, without interleaving.
Handle(r, q, h) ==
  /\ req' = [req EXCEPT ![r] = q]
  /\ sent' = [sent EXCEPT ![r] = h.sent]
  /\ call' = [call EXCEPT ![r] = h.call]
  /\ pc' = [pc EXCEPT ![r] = IF h.call.made THEN "awaiting" ELSE "done"]
  /\ UNCHANGED outcome

GetSalesDate(r, Q) == pc[r] = "idle" /\ \E q \in Q : Handle(r, q, SalesDate(q))
GetTrendsChecked(r, Q) == pc[r] = "idle" /\ \E q \in Q : Handle(r, q, TrendsChecked(q))
GetSalesMonthYear(r, Q) == pc[r] = "idle" /\ \E q \in Q : Handle(r, q, SalesMonthYear(q))
GetTrendsRaw(r, Q) == pc[r] = "idle" /\ \E q \in Q : Handle(r, q, TrendsRaw(q))

\* The store finishes the call of request r, in any order among the calls
\* in flight; the promise is settled with rows or rejected.
Settle(r, R) ==
  /\ pc[r] = "awaiting"
  /\ \E res \in R : outcome' = [outcome EXCEPT ![r] = res]
  /\ pc' = [pc EXCEPT ![r] = "settled"]
  /\ UNCHANGED <<req, call, sent>>

\* const result = await pgclient.query(query, values): the handler awaits
\* the promise of its own call.
\* (variant with one result shared by the handlers)
AwaitedShared(r) == outcome[1]
Awaited(r) == outcome[r]

\* The continuation after the await (or the catch block).
Resume(r) ==
  /\ pc[r] = "settled"
  /\ sent' = [sent EXCEPT ![r] = sent[r] \o MapResult(Awaited(r))]
  /\ pc' = [pc EXCEPT ![r] = "done"]
  /\ UNCHANGED <<req, call, outcome>>

\* One request at a time, over the full input sets.
Next ==
  \/ GetSalesDate(1, SalesDateRequests)
  \/ GetTrendsChecked(1, TrendsRequests("TrendsChecked"))
  \/ GetSalesMonthYear(1, SalesMonthYearRequests)
  \/ GetTrendsRaw(1, TrendsRequests("TrendsRaw"))
  \/ Settle(1, Results)
  \/ Resume(1)

Spec == Init /\ [][Next]_vars

\* Requests in flight together over the shared client.
NextConc ==
  \E r \in Slots :
    \/ GetSalesDate(r, ConcSalesDateRequests)
    \/ GetTrendsChecked(r, ConcTrendsRequests("TrendsChecked"))
    \/ GetSalesMonthYear(r, ConcSalesMonthYearRequests)
    \/ GetTrendsRaw(r, ConcTrendsRequests("TrendsRaw"))
    \/ Settle(r, ConcResults)
    \/ Resume(r)

SpecConc == Init /\ [][NextConc]_vars

\* The event loop runs the continuation of a settled promise.
LiveSpec == Spec /\ WF_vars(Resume(1))

\* =================================================== properties
\* What a request asks for, read off its parameters independently of the
\* handlers: calendar months as <<year, month>> with month in 1..12.
IsTrends(q) == q.h \in {"TrendsChecked", "TrendsRaw"}
IsSales(q) == q.h \in {"SalesDate", "SalesMonthYear"}

MonthOfString(p) == <<DigitsValue(SubSeq(p.s, 1, 4)), DigitsValue(SubSeq(p.s, 6, 7))>>

MonthLater(a, b) == a[1] > b[1] \/ (a[1] = b[1] /\ a[2] > b[2])

FirstInstant(ym) == [valid |-> TRUE, y |-> ym[1], m |-> ym[2] - 1, d |-> 1]

FollowingMonth(ym) == IF ym[2] = 12 THEN <<ym[1] + 1, 1>> ELSE <<ym[1], ym[2] + 1>>

IntegerMonth(p) ==
  Truthy(p) /\ NumberIsInteger(Number(p.s)) /\ Number(p.s).int \in 1..12

IntegerParam(p) == Truthy(p) /\ NumberIsInteger(Number(p.s))

Answered400(r) == Len(sent[r]) = 1 /\ sent[r][1].status = 400

\* C1: on /sales/trends with well-formed start_date and end_date, a start
\* month later than the end month is answered 400 with the range-order
\* error and no store call; otherwise the range check does not reject.
C1_RangeOrder ==
  \A r \in Slots :
    (pc[r] # "idle" /\ IsTrends(req[r])
       /\ dateFormat(req[r].start_date) /\ dateFormat(req[r].end_date))
    => IF MonthLater(MonthOfString(req[r].start_date), MonthOfString(req[r].end_date))
       THEN sent[r] = <<ErrorResponse(400, MsgRange)>> /\ ~call[r].made
       ELSE \A i \in 1..Len(sent[r]) : sent[r][i].error # MsgRange

\* The parameters of a /sales request other than group_by are valid.
OtherSalesParamsValid(q) ==
  /\ Default(q.sort_by, "total_revenue") \in {"total_revenue", "avg_revenue"}
  /\ Default(q.sort_order, "desc") \in {"asc", "desc"}
  /\ IF q.h = "SalesDate" THEN dateFormat(q.date)
     ELSE IntegerMonth(q.month) /\ IntegerParam(q.year)

\* C2: on /sales, a group_by outside {user, group} with the other
\* parameters valid is answered 400 and the store is never called, in
\* particular never with an empty SQL text.
C2_GroupByRejected ==
  \A r \in Slots :
    (pc[r] # "idle" /\ IsSales(req[r])
       /\ Default(req[r].group_by, "user") \notin {"user", "group"}
       /\ OtherSalesParamsValid(req[r]))
    => Answered400(r) /\ ~call[r].made

\* The store's reading of the date filter of a query: which sale dates the
\* WHERE clause selects for the bound values.
RECURSIVE HasTokens(_, _)
HasTokens(sql, part) ==
  /\ Len(sql) >= Len(part)
  /\ \/ SubSeq(sql, 1, Len(part)) = part
     \/ HasTokens(Tail(sql), part)

Selects(c, d) ==
  IF HasTokens(c.sql, HalfOpenFilter)
  THEN DateGE(d, c.values[1].date) /\ DateGT(c.values[2].date, d)
  ELSE IF HasTokens(c.sql, BetweenFilter)
  THEN DateGE(d, c.values[1].date) /\ DateGE(c.values[2].date, d)
  ELSE FALSE

\* First and last requested month of a request, when it names them.
NamesMonths(q) ==
  CASE q.h = "SalesDate" -> dateFormat(q.date)
    [] q.h = "SalesMonthYear" -> IntegerMonth(q.month) /\ IntegerParam(q.year)
    [] OTHER -> dateFormat(q.start_date) /\ dateFormat(q.end_date)

FirstMonth(q) ==
  CASE q.h = "SalesDate" -> MonthOfString(q.date)
    [] q.h = "SalesMonthYear" -> <<Number(q.year.s).int, Number(q.month.s).int>>
    [] OTHER -> MonthOfString(q.start_date)

LastMonth(q) ==
  CASE q.h = "SalesDate" -> MonthOfString(q.date)
    [] q.h = "SalesMonthYear" -> <<Number(q.year.s).int, Number(q.month.s).int>>
    [] OTHER -> MonthOfString(q.end_date)

ProbeDates(q) ==
  LET first == FirstInstant(FirstMonth(q))
      end == FirstInstant(FollowingMonth(LastMonth(q)))
  IN  {first, setDate(first, 0), end, setDate(end, 0), setDate(end, 2)}

\* C3: every executed query is bound to [first instant of the first
\* requested month, first instant of the month after the last requested
\* month) and its filter includes the start and excludes the end.
C3_HalfOpenRange ==
  \A r \in Slots :
    call[r].made /\ call[r].sql # <<>> /\ NamesMonths(req[r])
    => /\ call[r].values[1] = DateP(FirstInstant(FirstMonth(req[r])))
       /\ call[r].values[2] = DateP(FirstInstant(FollowingMonth(LastMonth(req[r]))))
       /\ \A d \in ProbeDates(req[r]) :
            Selects(call[r], d)
            <=> /\ DateGE(d, FirstInstant(FirstMonth(req[r])))
                /\ DateGT(FirstInstant(FollowingMonth(LastMonth(req[r]))), d)

\* The $n of the SQL text in order of appearance, and the number of times a
\* fixed piece of text appears in it.
Placeholders(sql) ==
  LET phs == SelectSeq(sql, LAMBDA t : t.t = "ph")
  IN  [i \in 1..Len(phs) |-> phs[i].n]

Occurrences(sql, piece) == Cardinality({i \in 1..Len(sql) : sql[i] = piece})

\* The placeholder that follows a predicate's text, 0 without the predicate.
PredicateIndex(sql, piece) ==
  IF \E i \in 1..(Len(sql) - 1) : sql[i] = piece
  THEN sql[(CHOOSE i \in 1..(Len(sql) - 1) : sql[i] = piece) + 1].n
  ELSE 0

\* A bound value is the given id: its number, or the string itself.
CarriesId(v, id) ==
  \/ v.k = "num" /\ v.num = Number(id.s)
  \/ v.k = "str" /\ v.str = id.s

\* C4: on /sales/trends the plan has one added predicate per present
\* filter, placeholders exactly $1..$n in ascending order with n the number
\* of bound values, and values [start, end, user_id?, group_id?], each
\* predicate's placeholder indexing its own id.
C4_TrendsPlan ==
  \A r \in Slots :
    (call[r].made /\ IsTrends(req[r]))
    => LET q == req[r]
           c == call[r]
           u == IF Truthy(q.user_id) THEN 1 ELSE 0
           g == IF Truthy(q.group_id) THEN 1 ELSE 0
           n == 2 + u + g
       IN  /\ Len(c.values) = n
           /\ Placeholders(c.sql) = [i \in 1..n |-> i]
           /\ Occurrences(c.sql, Text(" AND u.id = ")) = u
           /\ Occurrences(c.sql, Text(" AND g.id = ")) = g
           /\ c.values[1].k = "date" /\ c.values[2].k = "date"
           /\ c.values[1].date = FirstInstant(MonthOfString(q.start_date))
           /\ u = 1 => /\ CarriesId(c.values[3], q.user_id)
                       /\ PredicateIndex(c.sql, Text(" AND u.id = ")) = 3
           /\ g = 1 => /\ CarriesId(c.values[n], q.group_id)
                       /\ PredicateIndex(c.sql, Text(" AND g.id = ")) = n

C4_Witness ==
  \E r \in Slots :
    /\ call[r].made /\ IsTrends(req[r])
    /\ Truthy(req[r].user_id) /\ Truthy(req[r].group_id)
    /\ Len(call[r].values) = 4
    /\ pc[r] = "done"

\* C5: a request that reached the store is answered from the outcome of
\* its call alone: 500 "Internal server error" iff the call failed, 404 iff
\* it returned no rows, 200 with the rows as returned iff there are rows.
C5_ResultMapping ==
  \A r \in Slots :
    call[r].made
    => /\ pc[r] \in {"awaiting", "settled"} => sent[r] = <<>>
       /\ pc[r] = "done"
          => /\ Len(sent[r]) = 1
             /\ sent[r][1].status = 500 <=> outcome[r].fail
             /\ sent[r][1].status = 404 <=> (~outcome[r].fail /\ outcome[r].rows = <<>>)
             /\ sent[r][1].status = 200 <=> (~outcome[r].fail /\ outcome[r].rows # <<>>)
             /\ sent[r][1].status = 500 => sent[r][1].error = "Internal server error"
             /\ sent[r][1].status = 404
                => sent[r][1].error = "No sales data found for the given parameters."
             /\ sent[r][1].rows = outcome[r].rows

C5_Witness ==
  \E r \in Slots :
    /\ call[r].made /\ pc[r] = "done"
    /\ outcome[r] = Rows(<<2, 1>>)
    /\ sent[r] = <<RowsResponse(<<2, 1>>)>>

\* A numeric field of the request is present but not valid: month not an
\* integer in 1..12, year, user_id or group_id not an integer.
InvalidNumeric(q) ==
  CASE q.h = "SalesMonthYear" ->
         \/ Truthy(q.month) /\ ~IntegerMonth(q.month)
         \/ Truthy(q.year) /\ ~IntegerParam(q.year)
    [] IsTrends(q) ->
         \/ Truthy(q.user_id) /\ ~IntegerParam(q.user_id)
         \/ Truthy(q.group_id) /\ ~IntegerParam(q.group_id)
    [] OTHER -> FALSE

\* C6: a numeric field that is present but invalid is answered 400 and the
\* store is never called, so no such value is bound or used for the range.
C6_NumericRejected ==
  \A r \in Slots :
    (pc[r] # "idle" /\ InvalidNumeric(req[r]))
    => Answered400(r) /\ ~call[r].made

\* The messages of the rules a request violates, in the order presence,
\* calendar format, id format, group_by, sort_by, sort_order, range order.
\* "" stands for a rule that has no message of its own.
When(cond, msg) == IF cond THEN <<msg>> ELSE <<>>

ViolatedRules(q) ==
  CASE q.h = "SalesDate" ->
         When(~dateFormat(q.date), MsgDateFormat)
         \o When(Default(q.group_by, "user") \notin {"user", "group"}, MsgGroupBy)
         \o When(Default(q.sort_by, "total_revenue") \notin {"total_revenue", "avg_revenue"},
                 MsgSortBy)
         \o When(Default(q.sort_order, "desc") \notin {"asc", "desc"}, MsgSortOrder)
    [] q.h = "SalesMonthYear" ->
         When(~Truthy(q.month) \/ ~Truthy(q.year), MsgMonthYear)
         \o When(Truthy(q.month) /\ ~IntegerMonth(q.month), MsgMonth)
         \o When(Truthy(q.year) /\ ~IntegerParam(q.year), "")
         \o When(Default(q.group_by, "user") \notin {"user", "group"}, MsgGroupBy)
         \o When(Default(q.sort_by, "total_revenue") \notin {"total_revenue", "avg_revenue"},
                 MsgSortBy)
         \o When(Default(q.sort_order, "desc") \notin {"asc", "desc"}, MsgSortOrder)
    [] OTHER ->
         When(~Truthy(q.start_date) \/ ~Truthy(q.end_date), MsgBothDates)
         \o When(Truthy(q.start_date) /\ Truthy(q.end_date)
                 /\ (~dateFormat(q.start_date) \/ ~dateFormat(q.end_date)), MsgDateFormat)
         \o When(Truthy(q.user_id) /\ ~IntegerParam(q.user_id), MsgUserId)
         \o When(Truthy(q.group_id) /\ ~IntegerParam(q.group_id), MsgGroupId)
         \o When(dateFormat(q.start_date) /\ dateFormat(q.end_date)
                 /\ MonthLater(MonthOfString(q.start_date), MonthOfString(q.end_date)),
                 MsgRange)

\* C8: a request that violates more than one rule is answered 400 with the
\* message of the first violated rule in the order presence, format
\* (calendar strings, ids), enum membership, and only then range order.
C8_FirstViolationWins ==
  \A r \in Slots :
    (pc[r] # "idle" /\ Len(ViolatedRules(req[r])) >= 2)
    => /\ Answered400(r)
       /\ ViolatedRules(req[r])[1] # "" => sent[r][1].error = ViolatedRules(req[r])[1]

\* What selects the SQL text of a request.
Selectors(q) ==
  <<q.h, Default(q.group_by, "user"), Default(q.sort_by, "total_revenue"),
    Default(q.sort_order, "desc"), Truthy(q.user_id), Truthy(q.group_id)>>

OneResponse ==
  \A r \in Slots :
    /\ Len(sent[r]) <= 1
    /\ \A i \in 1..Len(sent[r]) : sent[r][i].status \in {200, 400, 404, 500}
    /\ pc[r] = "done" <=> Len(sent[r]) = 1
    /\ pc[r] \in {"awaiting", "settled"} => call[r].made

\* C9: every request gets exactly one response, with a status in
\* {200, 400, 404, 500}, along every path, and a settled store call
\* (resolved or rejected) is always answered.
C9_ExactlyOneResponse ==
  /\ []OneResponse
  /\ \A r \in Slots : (pc[r] = "settled") ~> (pc[r] = "done" /\ Len(sent[r]) = 1)

C9_Witness ==
  \E r \in Slots :
    /\ pc[r] = "done" /\ call[r].made
    /\ outcome[r] = Rows(<<>>)
    /\ Len(sent[r]) = 1 /\ sent[r][1].status = 404

\* The response of request r is the one its own call's outcome gives.
OwnOutcome(r) ==
  /\ sent[r][1].status = 500 <=> outcome[r].fail
  /\ sent[r][1].status = 404 <=> (~outcome[r].fail /\ outcome[r].rows = <<>>)
  /\ sent[r][1].status = 200 <=> (~outcome[r].fail /\ outcome[r].rows # <<>>)
  /\ sent[r][1].rows = outcome[r].rows

\* C10: with requests in flight together and the store settling their
\* calls in any order, each response comes from the outcome of the
\* request's own call, and requests that ask the same get the same query
\* and, for the same outcome, the same response.
C10_Isolation ==
  \A r \in Slots :
    /\ (pc[r] = "done" /\ call[r].made) => (Len(sent[r]) = 1 /\ OwnOutcome(r))
    /\ \A o \in Slots :
         (pc[o] # "idle" /\ pc[r] # "idle" /\ req[o] = req[r])
         => /\ call[o] = call[r]
            /\ (pc[o] = "done" /\ pc[r] = "done" /\ (call[r].made => outcome[o] = outcome[r]))
               => sent[o] = sent[r]

C10_Witness ==
  \E r, o \in Slots :
    /\ r < o
    /\ pc[r] = "awaiting" /\ pc[o] = "done"
    /\ call[o].made /\ outcome[o].fail
    /\ sent[o] = <<ErrorResponse(500, "Internal server error")>>
    /\ sent[r] = <<>>
====
